---- MODULE Spec2Model ----
(***************************************************************************)
(* Model of molpal.models.base.Model: the abstract model contract and its  *)
(* batched inference driver Model.apply (src/molpal/models/base.py).       *)
(*                                                                         *)
(* Conventions                                                             *)
(*  - an Optional[int] is a sequence: <<>> is None, <<v>> is the int v;    *)
(*  - an input identifier is an integer i in 1..MaxN, its feature          *)
(*    representation is Feature(i); the two ranges are disjoint;           *)
(*  - a stream is the sequence of the elements it yields; the batch        *)
(*    stream xs that apply iterates is a sequence of batches, each a       *)
(*    sequence of individual inputs;                                       *)
(*  - feats_batched records the shape of the x_feats argument: TRUE when   *)
(*    every element of x_feats is a batch, FALSE when every element is an  *)
(*    individual feature representation.                                   *)
(***************************************************************************)
EXTENDS Integers, Sequences, FiniteSets, TLC

\* Longest identifier / feature stream handed to apply.
MaxN == 3
\* Largest ordinary test_batch_size a model is constructed with.
MaxBatch == 2
\* Largest batched_size hint (and caller-side chunk size) a caller supplies.
MaxHint == 2

VARIABLES
    type_,            \* Model.type_ : the architecture tag
    test_batch_size,  \* Model.test_batch_size
    x_ids,            \* apply argument: identifier stream
    x_feats,          \* apply argument: feature stream
    feats_batched,    \* shape of x_feats (see conventions)
    batched_size_arg, \* apply argument batched_size, as the caller passed it
    batched_size,     \* the local batched_size after lines 120-125
    size,             \* apply argument size
    mean_only,        \* apply argument mean_only
    xs,               \* the batch stream iterated by the for loop
    n_batches,        \* the total handed to the progress bar
    means,            \* local list means
    variances,        \* local list variances
    pos,              \* number of batches the for loop has drawn from xs
    batch_xs,         \* the loop variable
    calls,            \* history of the prediction calls made, in call order
    rets,             \* history of how the prediction calls ended, in call order
    result,           \* Optional return value of apply: <<>> or <<(means, variances)>>
    pc                \* "idle", "loop", "in_call", "returned", "raised"

vars == <<type_, test_batch_size, x_ids, x_feats, feats_batched,
          batched_size_arg, batched_size, size, mean_only, xs, n_batches,
          means, variances, pos, batch_xs, calls, rets, result, pc>>

----------------------------------------------------------------------------
\* Optional[int]

None == <<>>

Some(v) == <<v>>

\* Python truthiness of an Optional[int]: None and 0 are falsy.
Truthy(o) == o # None /\ o[1] # 0

\* Python's a // b on ints (floor division), b # 0.
RECURSIVE PyFloorDiv(_, _)
PyFloorDiv(a, b) ==
    IF b < 0 THEN PyFloorDiv(-a, -b)
    ELSE IF a >= 0 THEN a \div b
    ELSE -(((-a) + b - 1) \div b)

----------------------------------------------------------------------------
\* Inputs

Min(a, b) == IF a <= b THEN a ELSE b

\* The feature representation of identifier i.
Feature(i) == i + 10

IdStream(n) == [i \in 1..n |-> i]

FeatStream(n) == [i \in 1..n |-> Feature(i)]

\* molpal.models.utils.batches(it, chunk_size): consecutive, non-overlapping
\* chunks of chunk_size elements in order, the last possibly shorter; an
\* empty iterable yields no chunk.
RECURSIVE batches(_, _)
batches(it, chunk_size) ==
    IF Len(it) = 0 THEN <<>>
    ELSE LET k == Min(chunk_size, Len(it))
         IN  <<SubSeq(it, 1, k)>> \o batches(SubSeq(it, k + 1, Len(it)), chunk_size)

\* All individual inputs of a sequence of batches, in order.
RECURSIVE Flatten(_)
Flatten(bs) ==
    IF Len(bs) = 0 THEN <<>> ELSE Head(bs) \o Flatten(Tail(bs))

TypeValues == {"mpn", "nn"}

BatchSizeValues == (1..MaxBatch) \cup {50}

HintValues == {None} \cup {Some(v) : v \in (-1)..MaxHint}

SizeValues == {None} \cup {Some(v) : v \in ((-1)..MaxN) \cup {101}}

\* The lengths of x_feats a caller passes along n identifiers: the aligned
\* length, or a different one.
FeatLengths(n) == {n, MaxN - n}

----------------------------------------------------------------------------
\* The backend (abstract methods get_means / get_means_and_vars). A
\* well-behaved backend returns one value per input of the batch, a pure
\* function of that input.

MeanOf(x) == 2 * x

VarOf(x) == 2 * x + 1

BackendMeans(batch) == [i \in 1..Len(batch) |-> MeanOf(batch[i])]

BackendVars(batch) == [i \in 1..Len(batch) |-> VarOf(batch[i])]

\* What a backend may hand back for a result of the right length: the
\* result itself, one value too few, or one value too many.
Outcomes == {"ok", "short", "long"}

\* The same for the (means, variances) pair of get_means_and_vars.
OutcomePairs ==
    {<<"ok", "ok">>, <<"short", "ok">>, <<"ok", "long">>, <<"long", "short">>}

Shaped(outcome, vals) ==
    CASE outcome = "ok" -> vals
      [] outcome = "short" -> SubSeq(vals, 1, Len(vals) - 1)
      [] outcome = "long" -> Append(vals, 0)

----------------------------------------------------------------------------
\* Model.apply, lines 120-134

\* Variant: a model of type 'mpn' is fed the feature representations of the
\* identifiers.
SelectStream_Featurized(t, ids, feats) ==
    IF t = "mpn" THEN [i \in 1..Len(ids) |-> Feature(ids[i])] ELSE feats

\* lines 120-125: the traversal stream.
SelectStream(t, ids, feats) == IF t = "mpn" THEN ids ELSE feats

\* lines 120-125: the batched_size local after the 'mpn' override.
OverrideBatchedSize(t, bs) == IF t = "mpn" THEN None ELSE bs

\* Variant: the estimate without the + 1.
EstimateBatches_NoPlusOne(sz, bs, tbs) ==
    IF Truthy(bs)
    THEN IF Truthy(sz) THEN Some(PyFloorDiv(sz[1], bs[1])) ELSE None
    ELSE IF Truthy(sz) THEN Some(PyFloorDiv(sz[1], tbs)) ELSE None

\* Variant: the estimate rounds up instead of adding 1.
EstimateBatches_Ceil(sz, bs, tbs) ==
    IF Truthy(bs)
    THEN IF Truthy(sz) THEN Some(-PyFloorDiv(-sz[1], bs[1])) ELSE None
    ELSE IF Truthy(sz) THEN Some(-PyFloorDiv(-sz[1], tbs)) ELSE None

\* lines 127-130: the batch count estimated for the progress bar.
EstimateBatches(sz, bs, tbs) ==
    IF Truthy(bs)
    THEN IF Truthy(sz) THEN Some(PyFloorDiv(sz[1], bs[1]) + 1) ELSE None
    ELSE IF Truthy(sz) THEN Some(PyFloorDiv(sz[1], tbs) + 1) ELSE None

\* Variant: the final, shorter batch is dropped.
BatchStream_DropPartial(sel, bs, tbs) ==
    IF Truthy(bs) THEN sel
    ELSE LET b == batches(sel, tbs)
         IN  IF Len(b) > 0 /\ Len(b[Len(b)]) < tbs
             THEN SubSeq(b, 1, Len(b) - 1) ELSE b

\* Variant: a pre-batched stream is re-sliced to test_batch_size.
BatchStream_Reslice(sel, bs, tbs) ==
    IF Truthy(bs) THEN batches(Flatten(sel), tbs) ELSE batches(sel, tbs)

\* Variant: an empty stream yields one empty batch.
BatchStream_EmptyBatch(sel, bs, tbs) ==
    IF Truthy(bs) THEN sel
    ELSE IF Len(sel) = 0 THEN << <<>> >> ELSE batches(sel, tbs)

\* lines 127-131: the stream the loop iterates.
BatchStream(sel, bs, tbs) ==
    IF Truthy(bs) THEN sel ELSE batches(sel, tbs)

\* Variant: get_means whatever the flag.
PredictFn_AlwaysMeans(mo) == "get_means"

\* lines 136-146: the prediction method the mean_only flag selects.
PredictFn(mo) == IF mo THEN "get_means" ELSE "get_means_and_vars"

\* Variant: the batch result is put in front of the accumulated values.
Extend_Prepend(acc, vals) == vals \o acc

\* list.extend
Extend(acc, vals) == acc \o vals

\* The shapes of x_feats a caller passes with a given hint to a given
\* model: batches when the hint announces batches, individual features
\* otherwise; a model of type 'mpn' never looks at x_feats.
FeatShapes(t, bs) ==
    IF t = "mpn" THEN BOOLEAN ELSE {Truthy(bs)}

Init ==
    /\ type_ \in TypeValues
    /\ test_batch_size \in BatchSizeValues
    /\ x_ids = <<>>
    /\ x_feats = <<>>
    /\ feats_batched = FALSE
    /\ batched_size_arg = None
    /\ batched_size = None
    /\ size = None
    /\ mean_only = TRUE
    /\ xs = <<>>
    /\ n_batches = None
    /\ means = <<>>
    /\ variances = <<>>
    /\ pos = 0
    /\ batch_xs = <<>>
    /\ calls = <<>>
    /\ rets = <<>>
    /\ result = None
    /\ pc = "idle"

\* apply(x_ids, x_feats, batched_size, size, mean_only), lines 120-134.
Apply ==
    /\ pc = "idle"
    /\ \E n \in 0..MaxN, bs \in HintValues, sz \in SizeValues,
          mo \in BOOLEAN, chunk \in 1..MaxHint :
         \E m \in FeatLengths(n), fb \in FeatShapes(type_, bs) :
           LET ids == IdStream(n)
               feats == IF fb THEN batches(FeatStream(m), chunk)
                        ELSE FeatStream(m)
               sel == SelectStream(type_, ids, feats)
               bsl == OverrideBatchedSize(type_, bs)
           IN  /\ (~fb => chunk = 1)
               /\ x_ids' = ids
               /\ x_feats' = feats
               /\ feats_batched' = fb
               /\ batched_size_arg' = bs
               /\ batched_size' = bsl
               /\ size' = sz
               /\ mean_only' = mo
               /\ n_batches' = EstimateBatches(sz, bsl, test_batch_size)
               /\ xs' = BatchStream(sel, bsl, test_batch_size)
    /\ means' = <<>>
    /\ variances' = <<>>
    /\ pos' = 0
    /\ pc' = "loop"
    /\ UNCHANGED <<type_, test_batch_size, batch_xs, calls, rets, result>>

\* lines 137-139 / 142-144: the loop draws the next batch and calls the
\* prediction method on it.
NextBatch ==
    /\ pc = "loop"
    /\ pos < Len(xs)
    /\ batch_xs' = xs[pos + 1]
    /\ pos' = pos + 1
    /\ calls' = Append(calls, [fn |-> PredictFn(mean_only), arg |-> xs[pos + 1]])
    /\ pc' = "in_call"
    /\ UNCHANGED <<type_, test_batch_size, x_ids, x_feats, feats_batched,
                   batched_size_arg, batched_size, size, mean_only, xs,
                   n_batches, means, variances, rets, result>>

\* lines 139-140: get_means returns, its values are appended to means.
GetMeansReturn ==
    /\ pc = "in_call"
    /\ calls[Len(calls)].fn = "get_means"
    /\ \E o \in Outcomes :
         LET batch_means == Shaped(o, BackendMeans(batch_xs))
         IN  /\ means' = Extend(means, batch_means)
             /\ rets' = Append(rets, [status |-> "returned",
                                      means |-> batch_means, vars |-> <<>>])
    /\ pc' = "loop"
    /\ UNCHANGED <<type_, test_batch_size, x_ids, x_feats, feats_batched,
                   batched_size_arg, batched_size, size, mean_only, xs,
                   n_batches, variances, pos, batch_xs, calls, result>>

\* lines 144-146: get_means_and_vars returns, its values are appended to
\* means and variances.
GetMeansAndVarsReturn ==
    /\ pc = "in_call"
    /\ calls[Len(calls)].fn = "get_means_and_vars"
    /\ \E o \in OutcomePairs :
         LET batch_means == Shaped(o[1], BackendMeans(batch_xs))
             batch_vars == Shaped(o[2], BackendVars(batch_xs))
         IN  /\ means' = Extend(means, batch_means)
             /\ variances' = Extend(variances, batch_vars)
             /\ rets' = Append(rets, [status |-> "returned",
                                      means |-> batch_means, vars |-> batch_vars])
    /\ pc' = "loop"
    /\ UNCHANGED <<type_, test_batch_size, x_ids, x_feats, feats_batched,
                   batched_size_arg, batched_size, size, mean_only, xs,
                   n_batches, pos, batch_xs, calls, result>>

\* Variant: the failure is swallowed and the loop goes on to the next batch.
PredictionRaises_Swallow ==
    /\ pc = "in_call"
    /\ rets' = Append(rets, [status |-> "raised", means |-> <<>>, vars |-> <<>>])
    /\ pc' = "loop"
    /\ UNCHANGED <<type_, test_batch_size, x_ids, x_feats, feats_batched,
                   batched_size_arg, batched_size, size, mean_only, xs,
                   n_batches, means, variances, pos, batch_xs, calls, result>>

\* lines 139 / 144: the prediction call raises; apply has no handler, the
\* exception leaves apply.
PredictionRaises ==
    /\ pc = "in_call"
    /\ rets' = Append(rets, [status |-> "raised", means |-> <<>>, vars |-> <<>>])
    /\ pc' = "raised"
    /\ UNCHANGED <<type_, test_batch_size, x_ids, x_feats, feats_batched,
                   batched_size_arg, batched_size, size, mean_only, xs,
                   n_batches, means, variances, pos, batch_xs, calls, result>>

\* line 148: the stream is exhausted, apply returns (means, variances).
Return ==
    /\ pc = "loop"
    /\ pos = Len(xs)
    /\ result' = Some(<<means, variances>>)
    /\ pc' = "returned"
    /\ UNCHANGED <<type_, test_batch_size, x_ids, x_feats, feats_batched,
                   batched_size_arg, batched_size, size, mean_only, xs,
                   n_batches, means, variances, pos, batch_xs, calls, rets>>

Next ==
    \/ Apply
    \/ NextBatch
    \/ GetMeansReturn
    \/ GetMeansAndVarsReturn
    \/ PredictionRaises
    \/ Return

Spec == Init /\ [][Next]_vars

TypeOK ==
    /\ type_ \in TypeValues
    /\ test_batch_size \in BatchSizeValues
    /\ pc \in {"idle", "loop", "in_call", "returned", "raised"}
    /\ pos \in 0..Len(xs)
    /\ Len(rets) <= Len(calls)

----------------------------------------------------------------------------
\* Vocabulary of the properties

\* The individual inputs apply is asked to predict on, in input order.
InputSeq ==
    IF type_ = "mpn" THEN x_ids
    ELSE IF feats_batched THEN Flatten(x_feats) ELSE x_feats

\* Every individual feature representation found in x_feats.
FeatAtoms ==
    LET flat == IF feats_batched THEN Flatten(x_feats) ELSE x_feats
    IN  {flat[i] : i \in 1..Len(flat)}

\* Every prediction call that has ended returned one value per input of
\* its batch (and so, from this backend, the pure per-input values).
ContractKept ==
    \A i \in 1..Len(rets) :
        /\ rets[i].status = "returned"
        /\ Len(rets[i].means) = Len(calls[i].arg)
        /\ calls[i].fn = "get_means_and_vars"
              => Len(rets[i].vars) = Len(calls[i].arg)

\* Some prediction call returned a result whose length is not that of its batch.
LengthMismatch ==
    \E i \in 1..Len(rets) :
        /\ rets[i].status = "returned"
        /\ \/ Len(rets[i].means) # Len(calls[i].arg)
           \/ /\ calls[i].fn = "get_means_and_vars"
              /\ Len(rets[i].vars) # Len(calls[i].arg)

\* q = floor(a / b), stated without division.
IsFloorQuotient(q, a, b) ==
    /\ b # 0
    /\ b > 0 => (q * b <= a /\ a < (q + 1) * b)
    /\ b < 0 => (q * b >= a /\ a > (q + 1) * b)

\* bstream cuts seq into consecutive batches of k elements, the last one
\* possibly shorter.
ConsecutiveBatches(bstream, seq, k) ==
    /\ Flatten(bstream) = seq
    /\ \A i \in 1..Len(bstream) :
          /\ Len(bstream[i]) >= 1
          /\ Len(bstream[i]) <= k
          /\ i < Len(bstream) => Len(bstream[i]) = k

\* The values the prediction calls returned, concatenated in call order.
RECURSIVE ReturnedMeans(_)
ReturnedMeans(rs) ==
    IF Len(rs) = 0 THEN <<>> ELSE Head(rs).means \o ReturnedMeans(Tail(rs))

RECURSIVE ReturnedVars(_)
ReturnedVars(rs) ==
    IF Len(rs) = 0 THEN <<>> ELSE Head(rs).vars \o ReturnedVars(Tail(rs))

----------------------------------------------------------------------------
\* C1: when every prediction call returned one value per input of its batch,
\* apply returns (means, variances) where means has exactly one element per
\* individual input, in input order; variances is empty when mean_only, else
\* it has one element per individual input, aligned with means and the input.
C1_LengthAndOrder ==
    (pc = "returned" /\ ContractKept) =>
        LET r == result[1]
            N == Len(InputSeq)
        IN  /\ Len(r[1]) = N
            /\ \A i \in 1..N : r[1][i] = MeanOf(InputSeq[i])
            /\ mean_only => r[2] = <<>>
            /\ ~mean_only =>
                  /\ Len(r[2]) = N
                  /\ \A i \in 1..N : r[2][i] = VarOf(InputSeq[i])

C1_Witness ==
    /\ pc = "returned"
    /\ ContractKept
    /\ ~mean_only
    /\ Len(InputSeq) >= 3
    /\ Len(calls) >= 2
    /\ Len(result[1][2]) = Len(InputSeq)

\* C2: on the path that batches the stream by test_batch_size, with a backend
\* whose values are a pure function of each input, the result of apply is the
\* concatenation of the per-batch outputs in batch order and equals the
\* result of one prediction call on the whole un-batched stream.
C2_BatchingLossless ==
    (pc = "returned" /\ ContractKept /\ ~Truthy(batched_size)) =>
        LET whole == SelectStream(type_, x_ids, x_feats)
        IN  /\ result[1][1] = ReturnedMeans(rets)
            /\ result[1][2] = ReturnedVars(rets)
            /\ result[1][1] = BackendMeans(whole)
            /\ result[1][2] = IF mean_only THEN <<>> ELSE BackendVars(whole)

C2_Witness ==
    /\ pc = "returned"
    /\ ContractKept
    /\ ~Truthy(batched_size)
    /\ Len(calls) >= 2
    /\ Len(calls[Len(calls)].arg) < test_batch_size
    /\ result[1][1] = BackendMeans(SelectStream(type_, x_ids, x_feats))

\* C3 as stated: if batched_size is set (any value) and the model is not of
\* type 'mpn', apply does not re-slice the feature stream: every element of
\* x_feats is the argument of exactly one prediction call, in stream order.
C3_AsStated ==
    (pc # "idle" /\ batched_size_arg # None /\ type_ # "mpn") =>
        /\ Truthy(batched_size)
        /\ xs = x_feats
        /\ \A i \in 1..Len(calls) : calls[i].arg = x_feats[i]
        /\ pc = "returned" => Len(calls) = Len(x_feats)

\* C3 amended: if batched_size is set to a nonzero value and the model is not
\* of type 'mpn', every element of x_feats is passed unchanged as the argument
\* of exactly one prediction call, in stream order.
C3_NoReslice ==
    (pc # "idle" /\ Truthy(batched_size_arg) /\ type_ # "mpn") =>
        /\ Len(xs) = Len(x_feats)
        /\ xs = x_feats
        /\ Len(calls) = pos
        /\ \A i \in 1..Len(calls) : calls[i].arg = x_feats[i]
        /\ pc = "returned" => Len(calls) = Len(x_feats)

C3_Witness ==
    /\ pc = "returned"
    /\ type_ # "mpn"
    /\ Truthy(batched_size_arg)
    /\ Len(x_feats) >= 2
    /\ Len(x_feats[1]) # test_batch_size
    /\ Len(calls) = Len(x_feats)

\* C4: a model of type 'mpn' is fed only elements of x_ids, grouped into
\* consecutive batches of test_batch_size, whatever batched_size and x_feats
\* are; no element of x_feats reaches a prediction call.
C4_MpnUsesIds ==
    (pc # "idle" /\ type_ = "mpn") =>
        /\ batched_size = None
        /\ ConsecutiveBatches(xs, x_ids, test_batch_size)
        /\ \A i \in 1..Len(calls) :
              /\ calls[i].arg = xs[i]
              /\ \A j \in 1..Len(calls[i].arg) : calls[i].arg[j] \notin FeatAtoms

C4_Witness ==
    /\ pc = "returned"
    /\ type_ = "mpn"
    /\ Truthy(batched_size_arg)
    /\ feats_batched
    /\ Len(x_feats) >= 1
    /\ Len(calls) >= 2
    /\ calls[1].arg = SubSeq(x_ids, 1, test_batch_size)

\* C5: if the prediction call on batch k fails, apply propagates the failure
\* at once: it returns nothing, no prediction call follows call k and call k
\* is not made again.
C5_FailFast ==
    \A k \in 1..Len(rets) :
        rets[k].status = "raised" =>
            /\ pc = "raised"
            /\ result = None
            /\ k = Len(rets)
            /\ k = Len(calls)
            /\ pos = k
            /\ ~ENABLED Next

C5_Witness ==
    /\ pc = "raised"
    /\ Len(calls) >= 2
    /\ means # <<>>
    /\ pos < Len(xs)
    /\ result = None

\* C6 as stated: when a prediction call returns a result whose length differs
\* from that of its batch, apply fails at once; it never returns normally
\* with means (or variances) shorter or longer than the inputs consumed.
C6_AsStated ==
    /\ LengthMismatch => pc = "raised"
    /\ pc = "returned" =>
          /\ Len(result[1][1]) = Len(InputSeq)
          /\ ~mean_only => Len(result[1][2]) = Len(InputSeq)

\* C7: on an empty input stream apply makes no prediction call and returns
\* ([], []), for both values of mean_only, both types and any batched_size.
C7_EmptyStream ==
    (pc # "idle" /\ Len(SelectStream(type_, x_ids, x_feats)) = 0) =>
        /\ calls = <<>>
        /\ ~ENABLED NextBatch
        /\ pc \in {"loop", "returned"}
        /\ pc = "loop" => ENABLED Return
        /\ pc = "returned" => result = Some(<< <<>>, <<>> >>)

C7_Witness ==
    /\ pc = "returned"
    /\ Len(SelectStream(type_, x_ids, x_feats)) = 0
    /\ type_ = "mpn"
    /\ Len(x_feats) >= 1
    /\ ~mean_only
    /\ batched_size_arg # None
    /\ result = Some(<< <<>>, <<>> >>)

\* The batch size C8 divides by: batched_size if it is set and not
\* overridden by the type 'mpn', else test_batch_size.
C8_StatedBatchSize ==
    IF batched_size_arg # None /\ type_ # "mpn"
    THEN batched_size_arg[1] ELSE test_batch_size

\* C8 as stated: the batch count given to the progress bar is
\* floor(size / effective batch size) + 1 whenever size is supplied, for any
\* integer, and unknown only when size is not supplied.
C8_AsStated ==
    pc # "idle" =>
        /\ size # None =>
              /\ n_batches # None
              /\ IsFloorQuotient(n_batches[1] - 1, size[1], C8_StatedBatchSize)
        /\ size = None => n_batches = None

\* The batch size the estimate divides by: batched_size if it is set to a
\* nonzero value and not overridden by the type 'mpn', else test_batch_size.
C8_EffectiveBatchSize ==
    IF Truthy(batched_size_arg) /\ type_ # "mpn"
    THEN batched_size_arg[1] ELSE test_batch_size

\* C8 amended: the batch count given to the progress bar is
\* floor(size / effective batch size) + 1 whenever size is supplied and
\* nonzero, and unknown when size is not supplied or is 0; size = 101 with
\* test_batch_size = 50 gives 3.
C8_BatchCount ==
    pc # "idle" =>
        /\ Truthy(size) =>
              /\ n_batches # None
              /\ IsFloorQuotient(n_batches[1] - 1, size[1], C8_EffectiveBatchSize)
        /\ ~Truthy(size) => n_batches = None
        /\ (size = Some(101) /\ C8_EffectiveBatchSize = 50) => n_batches = Some(3)

C8_Witness ==
    /\ pc = "returned"
    /\ size = Some(101)
    /\ test_batch_size = 50
    /\ ~Truthy(batched_size)
    /\ n_batches = Some(3)

\* C9: batches are processed one after the other in stream order with exactly
\* one prediction call per batch, and mean_only selects the method: only
\* get_means when it is true, only get_means_and_vars when it is false.
C9_SequentialExclusive ==
    pc # "idle" =>
        /\ Len(calls) = pos
        /\ \A i \in 1..Len(calls) :
              /\ calls[i].arg = xs[i]
              /\ mean_only => calls[i].fn = "get_means"
              /\ ~mean_only => calls[i].fn = "get_means_and_vars"
        /\ pc = "in_call" => Len(rets) = Len(calls) - 1
        /\ pc \in {"loop", "returned", "raised"} => Len(rets) = Len(calls)
        /\ pc = "returned" => Len(calls) = Len(xs)
        /\ mean_only => variances = <<>>

C9_Witness ==
    /\ pc = "returned"
    /\ ~mean_only
    /\ Len(xs) >= 3
    /\ Len(calls) = Len(xs)
    /\ \A i \in 1..Len(calls) : calls[i].fn = "get_means_and_vars"

\* C10: when the stream is batched by test_batch_size and size is the true
\* number N >= 1 of inputs, the estimated batch count is never smaller than
\* the number of prediction calls made, ceil(N / test_batch_size), and is
\* larger, by exactly 1, exactly when N is a multiple of test_batch_size;
\* whatever size is passed, apply returns what the prediction calls returned.
C10_EstimateVsActual ==
    (pc = "returned" /\ ~Truthy(batched_size)) =>
        LET N == Len(SelectStream(type_, x_ids, x_feats))
            t == test_batch_size
        IN  /\ (Len(calls) - 1) * t < N
            /\ N <= Len(calls) * t
            /\ result = Some(<<ReturnedMeans(rets), ReturnedVars(rets)>>)
            /\ (N >= 1 /\ size = Some(N)) =>
                  /\ n_batches # None
                  /\ n_batches[1] >= Len(calls)
                  /\ n_batches[1] <= Len(calls) + 1
                  /\ (n_batches[1] = Len(calls) + 1) <=> (N % t = 0)

C10_Witness ==
    /\ pc = "returned"
    /\ ~Truthy(batched_size)
    /\ test_batch_size = 2
    /\ size = Some(Len(SelectStream(type_, x_ids, x_feats)))
    /\ Len(calls) = 1
    /\ n_batches = Some(2)
====
